---- MODULE Spec2Model ----
(***************************************************************************)
(* RefCounter of memroy_manager.py: a reference-counted object pool with   *)
(* a free pool bucketed by (type name, size category), every method body   *)
(* wrapped in `with self.lock` on one threading.Lock.                      *)
(*                                                                         *)
(* Granularity: a call is three kinds of step.  Call* evaluates the        *)
(* arguments (obj_id = id(obj)) and arrives at the `with self.lock` line;  *)
(* Acquire takes the lock; the *Body step runs the block and, where the    *)
(* block runs to its end, the release of the `with` exit.  A block that    *)
(* calls another method of the manager stops at that method's              *)
(* `with self.lock` line with the lock still held.                         *)
(***************************************************************************)
EXTENDS Integers, Sequences, FiniteSets, TLC

\* ---------------------------------------------------------------- bounds
NumThreads == 2
NumObjs == 3
MaxCalls == 3

Threads == 1..NumThreads
Objs == 1..NumObjs
NoThread == 0
NoObj == 0

\* ------------------------------------------------- injected primitives
\* sys.getsizeof(obj): stable per object; one object in each size range.
SizeOf(o) ==
    CASE o % 3 = 1 -> 64
      [] o % 3 = 2 -> 232
      [] OTHER     -> 1080

\* type(obj).__name__
TypeOf(o) == IF o % 2 = 1 THEN "dict" ELSE "list"

\* desired_type arguments of reuse; "None" is the default desired_type=None.
DesiredTypes == {"None", "dict", "list"}
\* min_size arguments of reuse (0 is the default).
MinSizes == {0, 100, 1000}

\* ------------------------------------------------------ size categories
\* The category names are Python strings; they are kept as their code
\* points because reuse compares them with the string operator >=.
small == <<115, 109, 97, 108, 108>>
medium == <<109, 101, 100, 105, 117, 109>>
large == <<108, 97, 114, 103, 101>>

\* The boundaries taken with <= : 100 is still small, 1000 still medium.
_size_category_Inclusive(size) ==
    IF size <= 100 THEN small
    ELSE IF size <= 1000 THEN medium
    ELSE large

_size_category(size) ==
    IF size < 100 THEN small
    ELSE IF size < 1000 THEN medium
    ELSE large

\* Python's str >= : lexicographic on code points, a proper prefix is smaller.
RECURSIVE StrGE(_, _)
StrGE(a, b) ==
    IF b = <<>> THEN TRUE
    ELSE IF a = <<>> THEN FALSE
    ELSE IF Head(a) # Head(b) THEN Head(a) > Head(b)
    ELSE StrGE(Tail(a), Tail(b))

\* ----------------------------------------------------------------- state
VARIABLES
    references,     \* self.references: dict obj_id -> count
    objects,        \* self.objects: dict obj_id -> obj
    memory_pool,    \* self.memory_pool: defaultdict(list), in insertion order
    lock,           \* self.lock: NoThread when unlocked, else who locked it
    memory_usage,   \* self.memory_usage
    pc,             \* per thread: where it is
    op,             \* per thread: the public method it called last
    obj,            \* per thread: the obj parameter of the method it is in
    desired_type,   \* per thread: reuse's desired_type (as type_name)
    min_size,       \* per thread: reuse's min_size
    caller,         \* per thread: the method that called the one it is in
    result,         \* per thread: what the last call returned
    events,         \* per thread: the _log messages of the call, by kind
    calls           \* number of public calls made so far

vars == <<references, objects, memory_pool, lock, memory_usage, pc, op, obj,
          desired_type, min_size, caller, result, events, calls>>

shared == <<references, objects, memory_pool, memory_usage>>

Void == [kind |-> "void", val |-> 0]
None == [kind |-> "None", val |-> 0]
ObjResult(o) == [kind |-> "object", val |-> o]
IntResult(n) == [kind |-> "int", val |-> n]

LockLines == {"allocate_lock", "increase_ref_lock", "decrease_ref_lock",
              "drop_lock", "reuse_lock", "get_memory_usage_lock"}

BodyLines == {"allocate_body", "increase_ref_body", "decrease_ref_body",
              "drop_body", "reuse_body", "get_memory_usage_body"}

BodyOf(line) ==
    CASE line = "allocate_lock" -> "allocate_body"
      [] line = "increase_ref_lock" -> "increase_ref_body"
      [] line = "decrease_ref_lock" -> "decrease_ref_body"
      [] line = "drop_lock" -> "drop_body"
      [] line = "reuse_lock" -> "reuse_body"
      [] OTHER -> "get_memory_usage_body"

Init ==
    /\ references = << >>
    /\ objects = << >>
    /\ memory_pool = << >>
    /\ lock = NoThread
    /\ memory_usage = 0
    /\ pc = [t \in Threads |-> "idle"]
    /\ op = [t \in Threads |-> "none"]
    /\ obj = [t \in Threads |-> NoObj]
    /\ desired_type = [t \in Threads |-> "None"]
    /\ min_size = [t \in Threads |-> 0]
    /\ caller = [t \in Threads |-> "none"]
    /\ result = [t \in Threads |-> Void]
    /\ events = [t \in Threads |-> << >>]
    /\ calls = 0

\* ------------------------------------------------------ dict operations
\* d[k] = v
DictSet(d, k, v) == [x \in DOMAIN d \cup {k} |-> IF x = k THEN v ELSE d[x]]
\* del d[k]
DictDel(d, k) == [x \in DOMAIN d \ {k} |-> d[x]]

\* Position of a key in the pool dict, 0 when it is not a key.
PoolIndex(mp, key) ==
    IF \E i \in 1..Len(mp) : mp[i].key = key
    THEN CHOOSE i \in 1..Len(mp) : mp[i].key = key
    ELSE 0

\* self.memory_pool[key].append(o): a missing key is created, last in order.
PoolAppend(mp, key, o) ==
    IF PoolIndex(mp, key) = 0
    THEN Append(mp, [key |-> key, pool |-> <<o>>])
    ELSE [mp EXCEPT ![PoolIndex(mp, key)].pool = Append(@, o)]

\* The test of reuse's loop for one item of the pool dict.
Qualifies(entry, type_name, size_category) ==
    /\ (type_name = "None" \/ entry.key[1] = type_name)
    /\ StrGE(entry.key[2], size_category)
    /\ entry.pool # << >>

\* The first item, in iteration order, that reuse's loop accepts; 0 if none.
FirstCandidate(mp, type_name, size_category) ==
    IF \E i \in 1..Len(mp) : Qualifies(mp[i], type_name, size_category)
    THEN CHOOSE i \in 1..Len(mp) :
            /\ Qualifies(mp[i], type_name, size_category)
            /\ \A j \in 1..(i - 1) : ~Qualifies(mp[j], type_name, size_category)
    ELSE 0

\* pool.pop() returns the last element
PopLast(s) == SubSeq(s, 1, Len(s) - 1)
Last(s) == s[Len(s)]

_log(t, kind) == events' = [events EXCEPT ![t] = Append(@, kind)]

\* ------------------------------------------------------------- the calls
\* A thread that is in no call makes one: the arguments are bound and the
\* thread stands at the method's `with self.lock`.
Begin(t, name, o, ty, ms) ==
    /\ pc[t] = "idle"
    /\ calls' = calls + 1
    /\ pc' = [pc EXCEPT ![t] = name \o "_lock"]
    /\ op' = [op EXCEPT ![t] = name]
    /\ obj' = [obj EXCEPT ![t] = o]
    /\ desired_type' = [desired_type EXCEPT ![t] = ty]
    /\ min_size' = [min_size EXCEPT ![t] = ms]
    /\ caller' = [caller EXCEPT ![t] = "none"]
    /\ result' = [result EXCEPT ![t] = Void]
    /\ events' = [events EXCEPT ![t] = << >>]
    /\ UNCHANGED <<shared, lock>>

Enter(t, name, o, ty, ms) ==
    /\ calls < MaxCalls
    /\ Begin(t, name, o, ty, ms)

CallAllocate(t, o) == Enter(t, "allocate", o, "None", 0)
CallIncreaseRef(t, o) == Enter(t, "increase_ref", o, "None", 0)
CallDecreaseRef(t, o) == Enter(t, "decrease_ref", o, "None", 0)
CallDrop(t, o) == Enter(t, "drop", o, "None", 0)
CallReuse(t, ty, ms) == Enter(t, "reuse", NoObj, ty, ms)
CallGetMemoryUsage(t) == Enter(t, "get_memory_usage", NoObj, "None", 0)

\* `with self.lock:` -- threading.Lock.acquire() blocks while the lock is
\* locked, whoever locked it.
Acquire(t) ==
    /\ pc[t] \in LockLines
    /\ lock = NoThread
    /\ lock' = t
    /\ pc' = [pc EXCEPT ![t] = BodyOf(pc[t])]
    /\ UNCHANGED <<shared, op, obj, desired_type, min_size, caller, result,
                   events, calls>>

\* Leaving a method that was called from inside another method's block: the
\* inner `with` has unlocked the lock, so the caller's own `with` exit
\* releases an unlocked lock, which raises RuntimeError.
AfterBlock(t) == IF caller[t] = "none" THEN "idle" ELSE "raised"

\* The `with` exit and the return: the lock is released, the frame is gone.
Return(t) ==
    /\ lock' = NoThread
    /\ pc' = [pc EXCEPT ![t] = AfterBlock(t)]
    /\ obj' = [obj EXCEPT ![t] = NoObj]
    /\ desired_type' = [desired_type EXCEPT ![t] = "None"]
    /\ min_size' = [min_size EXCEPT ![t] = 0]
    /\ UNCHANGED <<caller, op, calls>>

\* A call of another method from inside the block: the lock stays locked.
CallInside(t, from, line, o) ==
    /\ pc' = [pc EXCEPT ![t] = line]
    /\ caller' = [caller EXCEPT ![t] = from]
    /\ obj' = [obj EXCEPT ![t] = o]
    /\ UNCHANGED <<lock, desired_type, min_size, op, calls>>

AllocateBody(t) ==
    /\ pc[t] = "allocate_body"
    /\ memory_usage' = memory_usage + SizeOf(obj[t])
    /\ references' = DictSet(references, obj[t], 1)
    /\ objects' = DictSet(objects, obj[t], obj[t])
    /\ IF caller[t] = "reuse"
       THEN /\ events' = [events EXCEPT ![t] = @ \o <<"Allocated", "Reused">>]
            /\ result' = [result EXCEPT ![t] = ObjResult(obj[t])]
       ELSE /\ _log(t, "Allocated")
            /\ UNCHANGED result
    /\ Return(t)
    /\ UNCHANGED memory_pool

\* increase_ref without its membership test, counting from 0 for a missing
\* key: an absent identity gets an entry.
IncreaseRefBody_NoGuard(t) ==
    /\ pc[t] = "increase_ref_body"
    /\ references' =
         DictSet(references, obj[t],
                 (IF obj[t] \in DOMAIN references
                  THEN references[obj[t]] ELSE 0) + 1)
    /\ _log(t, "RefIncreased")
    /\ Return(t)
    /\ UNCHANGED <<objects, memory_pool, memory_usage, result>>

IncreaseRefBody(t) ==
    /\ pc[t] = "increase_ref_body"
    /\ IF obj[t] \in DOMAIN references
       THEN /\ references' = [references EXCEPT ![obj[t]] = @ + 1]
            /\ _log(t, "RefIncreased")
       ELSE /\ _log(t, "NotAllocated")
            /\ UNCHANGED references
    /\ Return(t)
    /\ UNCHANGED <<objects, memory_pool, memory_usage, result>>

\* The block of decrease_ref up to its end or to its call of self.drop(obj).
DecreaseRefBody(t) ==
    /\ pc[t] = "decrease_ref_body"
    /\ IF obj[t] \in DOMAIN references
       THEN /\ references' = [references EXCEPT ![obj[t]] = @ - 1]
            /\ _log(t, "RefDecreased")
            /\ IF references[obj[t]] - 1 = 0
               THEN CallInside(t, "decrease_ref", "drop_lock", obj[t])
               ELSE Return(t)
       ELSE /\ _log(t, "NotAllocated")
            /\ UNCHANGED references
            /\ Return(t)
    /\ UNCHANGED <<objects, memory_pool, memory_usage, result>>

\* drop that categorizes the memory still in use in place of the object's
\* own size.
DropBody_CategoryOfUsage(t) ==
    /\ pc[t] = "drop_body"
    /\ IF obj[t] \in DOMAIN references
       THEN /\ _log(t, "Dropped")
            /\ memory_usage' = memory_usage - SizeOf(obj[t])
            /\ references' = DictDel(references, obj[t])
            /\ objects' = DictDel(objects, obj[t])
            /\ memory_pool' =
                 PoolAppend(memory_pool,
                            <<TypeOf(obj[t]),
                              _size_category(memory_usage - SizeOf(obj[t]))>>,
                            obj[t])
       ELSE UNCHANGED <<events, shared>>
    /\ Return(t)
    /\ UNCHANGED result

\* drop that gives up one reference and reclaims only on the last one.
DropBody_OneReference(t) ==
    /\ pc[t] = "drop_body"
    /\ IF obj[t] \in DOMAIN references /\ references[obj[t]] > 1
       THEN /\ references' = [references EXCEPT ![obj[t]] = @ - 1]
            /\ _log(t, "Dropped")
            /\ UNCHANGED <<objects, memory_pool, memory_usage>>
       ELSE IF obj[t] \in DOMAIN references
       THEN /\ _log(t, "Dropped")
            /\ memory_usage' = memory_usage - SizeOf(obj[t])
            /\ references' = DictDel(references, obj[t])
            /\ objects' = DictDel(objects, obj[t])
            /\ memory_pool' =
                 PoolAppend(memory_pool,
                            <<TypeOf(obj[t]), _size_category(SizeOf(obj[t]))>>,
                            obj[t])
       ELSE UNCHANGED <<events, shared>>
    /\ Return(t)
    /\ UNCHANGED result

\* drop that takes the size off memory_usage before its membership test.
DropBody_SubtractsFirst(t) ==
    /\ pc[t] = "drop_body"
    /\ memory_usage' = memory_usage - SizeOf(obj[t])
    /\ IF obj[t] \in DOMAIN references
       THEN /\ _log(t, "Dropped")
            /\ references' = DictDel(references, obj[t])
            /\ objects' = DictDel(objects, obj[t])
            /\ memory_pool' =
                 PoolAppend(memory_pool,
                            <<TypeOf(obj[t]), _size_category(SizeOf(obj[t]))>>,
                            obj[t])
       ELSE UNCHANGED <<events, references, objects, memory_pool>>
    /\ Return(t)
    /\ UNCHANGED result

\* drop without `del self.objects[obj_id]`.
DropBody_KeepsObject(t) ==
    /\ pc[t] = "drop_body"
    /\ IF obj[t] \in DOMAIN references
       THEN /\ _log(t, "Dropped")
            /\ memory_usage' = memory_usage - SizeOf(obj[t])
            /\ references' = DictDel(references, obj[t])
            /\ memory_pool' =
                 PoolAppend(memory_pool,
                            <<TypeOf(obj[t]), _size_category(SizeOf(obj[t]))>>,
                            obj[t])
            /\ UNCHANGED objects
       ELSE UNCHANGED <<events, shared>>
    /\ Return(t)
    /\ UNCHANGED result

DropBody(t) ==
    /\ pc[t] = "drop_body"
    /\ IF obj[t] \in DOMAIN references
       THEN /\ _log(t, "Dropped")
            /\ memory_usage' = memory_usage - SizeOf(obj[t])
            /\ references' = DictDel(references, obj[t])
            /\ objects' = DictDel(objects, obj[t])
            /\ memory_pool' =
                 PoolAppend(memory_pool,
                            <<TypeOf(obj[t]), _size_category(SizeOf(obj[t]))>>,
                            obj[t])
       ELSE UNCHANGED <<events, shared>>
    /\ Return(t)
    /\ UNCHANGED result

\* The block of reuse up to its end or to its call of
\* self.allocate(reused_obj).
ReuseBody(t) ==
    /\ pc[t] = "reuse_body"
    /\ LET i == FirstCandidate(memory_pool, desired_type[t],
                               _size_category(min_size[t]))
       IN IF i # 0
          THEN /\ memory_pool' = [memory_pool EXCEPT ![i].pool = PopLast(@)]
               /\ CallInside(t, "reuse", "allocate_lock",
                             Last(memory_pool[i].pool))
               /\ UNCHANGED <<events, result>>
          ELSE /\ _log(t, "NoReuseCandidate")
               /\ result' = [result EXCEPT ![t] = None]
               /\ Return(t)
               /\ UNCHANGED memory_pool
    /\ UNCHANGED <<references, objects, memory_usage>>

GetMemoryUsageBody(t) ==
    /\ pc[t] = "get_memory_usage_body"
    /\ _log(t, "MemoryUsage")
    /\ result' = [result EXCEPT ![t] = IntResult(memory_usage)]
    /\ Return(t)
    /\ UNCHANGED shared

Call(t) ==
    \/ \E o \in Objs : CallAllocate(t, o)
    \/ \E o \in Objs : CallIncreaseRef(t, o)
    \/ \E o \in Objs : CallDecreaseRef(t, o)
    \/ \E o \in Objs : CallDrop(t, o)
    \/ \E ty \in DesiredTypes, ms \in MinSizes : CallReuse(t, ty, ms)
    \/ CallGetMemoryUsage(t)

\* What a thread does once it has made a call.
Step(t) ==
    \/ AllocateBody(t)
    \/ IncreaseRefBody(t)
    \/ DecreaseRefBody(t)
    \/ DropBody(t)
    \/ ReuseBody(t)
    \/ GetMemoryUsageBody(t)

Next ==
    \E t \in Threads : Call(t) \/ Acquire(t) \/ Step(t)

Spec == Init /\ [][Next]_vars

\* Scheduling: a thread that can run does run, and a thread waiting for the
\* lock gets it if the lock keeps becoming free.
FairSpec ==
    /\ Spec
    /\ \A t \in Threads : WF_vars(Step(t)) /\ SF_vars(Acquire(t))

\* ------------------------------------------------------------ properties
\* Sum of sys.getsizeof over the values of self.objects.
RECURSIVE SumSizes(_)
SumSizes(ids) ==
    IF ids = {} THEN 0
    ELSE LET i == CHOOSE x \in ids : TRUE
         IN SizeOf(objects[i]) + SumSizes(ids \ {i})

LiveSize == SumSizes(DOMAIN objects)

\* Small < Medium < Large
Rank(category) ==
    CASE category = small -> 1
      [] category = medium -> 2
      [] OTHER -> 3

\* A thread that can take a step of the call it is in.
CanRun(t) ==
    \/ pc[t] \in BodyLines
    \/ pc[t] \in LockLines /\ lock = NoThread

\* No call is in progress that can still move: every thread has returned
\* or is stopped for good.
Stable == \A t \in Threads : ~CanRun(t)

\* The objects of the free pool, bucket by bucket.
Pooled ==
    UNION {{memory_pool[i].pool[j] : j \in 1..Len(memory_pool[i].pool)} :
             i \in 1..Len(memory_pool)}

\* C1: in every reachable state memory_usage is the sum of the sizes of the
\* objects in the live-object table.
C1_MemoryUsageIsLiveSum == memory_usage = LiveSize

\* C2: under fair scheduling every call that was made returns.
C2_EveryCallReturns ==
    \A t \in Threads : (pc[t] # "idle") ~> (pc[t] = "idle")

\* C3: whenever no call can still move, every count in the reference table
\* is at least 1: a count of 0 is only seen inside the step of the
\* decrease_ref that removes it.
C3_CountsAtLeastOne ==
    Stable => \A i \in DOMAIN references : references[i] >= 1

\* C4: the reference table and the live-object table have the same keys.
C4_SameKeys == DOMAIN references = DOMAIN objects

C4_Witness ==
    /\ references # << >>
    /\ Pooled # {}
    /\ \E t \in Threads : pc[t] = "idle" /\ events[t] = <<"Dropped">>

\* The free pool holds exactly the object x, in the bucket of its type and
\* size category.
OnlyPooled(x) ==
    memory_pool = << [key |-> <<TypeOf(x), _size_category(SizeOf(x))>>,
                      pool |-> <<x>>] >>

\* C5: round trip on a manager that was empty: once allocate(x) and a
\* decrease_ref(x) that took the count from 1 to 0 are the only calls made
\* and the decrease_ref can move no further, x is in neither live table, x
\* is the one object of the bucket (type_tag(x), size_category(size_of(x)))
\* and memory_usage is back at its value before the allocate, 0.
C5_RoundTrip ==
    \A t \in Threads :
        ( /\ calls = 2
          /\ caller[t] = "decrease_ref"
          /\ Stable )
        => /\ references = << >>
           /\ objects = << >>
           /\ memory_usage = 0
           /\ \E x \in Objs : OnlyPooled(x)

\* The step of thread t in which reuse takes an object out of bucket i.
ReuseTakes(t, i) ==
    /\ pc[t] = "reuse_body"
    /\ pc'[t] # "reuse_body"
    /\ i \in 1..Len(memory_pool)
    /\ Len(memory_pool'[i].pool) < Len(memory_pool[i].pool)

\* A bucket that reuse(ty, ms) is specified to accept.
Matches(key, ty, ms) ==
    /\ (ty = "None" \/ key[1] = ty)
    /\ Rank(key[2]) >= Rank(_size_category(ms))

\* C6: reuse only takes an object from a bucket whose type_tag is the
\* desired type (any, when unspecified) and whose size category is at least
\* the category of min_size under Small < Medium < Large.
C6_ReuseTakesOnlyMatching ==
    [][\A t \in Threads : \A i \in 1..Len(memory_pool) :
          ReuseTakes(t, i)
          => Matches(memory_pool[i].key, desired_type[t], min_size[t])]_vars

\* C7: a reuse that runs while some non-empty bucket matches its arguments
\* does not come back with none.
C7_ReuseFindsMatching ==
    [][\A t \in Threads :
          ( /\ pc[t] = "reuse_body"
            /\ pc'[t] # "reuse_body"
            /\ \E i \in 1..Len(memory_pool) :
                  /\ memory_pool[i].pool # << >>
                  /\ Matches(memory_pool[i].key, desired_type[t], min_size[t]) )
          => result'[t] # None]_vars

\* C8: reuse on a manager whose only pooled object is o: once allocate(o),
\* drop(o) and a reuse that took o are the only calls made and the reuse can
\* move no further, the reuse has returned o, o's bucket is one object
\* shorter (empty), o is in both live tables with count 1 and memory_usage
\* is size_of(o), that much higher than the 0 before the call.
C8_ReuseReallocates ==
    \A t \in Threads :
        ( /\ calls = 3
          /\ caller[t] = "reuse"
          /\ Stable )
        => \E o \in Objs :
              /\ result[t] = ObjResult(o)
              /\ references = (o :> 1)
              /\ objects = (o :> o)
              /\ memory_usage = SizeOf(o)
              /\ Len(memory_pool) = 1
              /\ memory_pool[1].pool = << >>

\* The step in which thread t runs the block of increase_ref or
\* decrease_ref on an identity that is not in the reference table.
GuardStep(t) ==
    /\ pc[t] \in {"increase_ref_body", "decrease_ref_body"}
    /\ pc'[t] # pc[t]
    /\ obj[t] \notin DOMAIN references

\* C9: increase_ref and decrease_ref on an identity absent from the
\* reference table change neither table, nor the free pool, nor
\* memory_usage, and report NotAllocated and nothing else.
C9_AbsentIdentityRejected ==
    [][\A t \in Threads :
          GuardStep(t)
          => /\ UNCHANGED <<references, objects, memory_pool, memory_usage>>
             /\ events'[t] = <<"NotAllocated">>]_vars

\* A call on an identity that had been dropped was rejected.
C9_Witness ==
    \E t \in Threads :
        /\ pc[t] = "idle"
        /\ op[t] \in {"increase_ref", "decrease_ref"}
        /\ events[t] = <<"NotAllocated">>
        /\ Pooled # {}

\* C10: allocate on an identity that is already live keeps memory_usage
\* equal to the sum of the sizes of the live objects and does not reset a
\* count above 1 to 1.
C10_DuplicateAllocateKeepsAccounts ==
    [][\A t \in Threads :
          ( /\ pc[t] = "allocate_body"
            /\ pc'[t] # "allocate_body"
            /\ obj[t] \in DOMAIN references
            /\ memory_usage = LiveSize )
          => /\ memory_usage' = LiveSize'
             /\ ~(references[obj[t]] > 1 /\ references'[obj[t]] = 1)]_vars

\* ------------------------------------------- threads on disjoint objects
\* The objects thread t works on: no object belongs to two threads.
Owned(t) == {o \in Objs : (o % NumThreads) + 1 = t}

\* allocate(o) by the owner of o, which has not passed o to the manager yet.
OwnerAllocates(t, o) ==
    /\ o \in Owned(t)
    /\ o \notin DOMAIN objects
    /\ o \notin Pooled
    /\ Begin(t, "allocate", o, "None", 0)

\* decrease_ref(o) by the owner of o, which has allocated it.
OwnerDecreases(t, o) ==
    /\ o \in Owned(t)
    /\ o \in DOMAIN objects
    /\ Begin(t, "decrease_ref", o, "None", 0)

\* Each thread allocates its own objects and releases them again, as often
\* as it has objects (the calls are not capped by MaxCalls).  The block
\* of drop is no step here: it is entered only from decrease_ref, whose
\* caller holds the lock that drop's `with self.lock` waits for.
DisjointNext ==
    \E t \in Threads :
        \/ \E o \in Objs : OwnerAllocates(t, o)
        \/ \E o \in Objs : OwnerDecreases(t, o)
        \/ Acquire(t)
        \/ AllocateBody(t)
        \/ DecreaseRefBody(t)

DisjointSpec == Init /\ [][DisjointNext]_vars

\* C11: threads that allocate and decrease_ref disjoint objects leave, once
\* no call can move any more, the state of a serial execution of whole
\* operations: every object is live with the count 1 of its allocate or, its
\* decrease_ref done, in neither table and in the free pool, and
\* memory_usage is the sum of the sizes of the live objects.
C11_DisjointThreadsSerial ==
    Stable =>
        /\ \A o \in DOMAIN references : references[o] = 1
        /\ DOMAIN references = DOMAIN objects
        /\ Pooled \cap DOMAIN objects = {}
        /\ memory_usage = LiveSize

\* The step in which thread t runs the block of method `name` on an
\* identity that is in the reference table.
LiveStep(t, name) ==
    /\ pc[t] = name \o "_body"
    /\ pc'[t] # pc[t]
    /\ obj[t] \in DOMAIN references

\* x is in both live tables after the step.
StaysLive(x) == x \in DOMAIN references' /\ x \in DOMAIN objects'

\* C12: an object stays live as long as its decrements are fewer than its
\* increments plus one: an increase_ref adds one to the count, a
\* decrease_ref of a count above 1 takes one off and leaves the object in
\* both live tables, and the decrease_ref of a count of 1 drops it: once no
\* call can move any more the object is in neither live table and in the
\* free pool.
C12_LiveWhileHeld ==
    [][\A t \in Threads :
          /\ LiveStep(t, "increase_ref")
             => /\ StaysLive(obj[t])
                /\ references'[obj[t]] = references[obj[t]] + 1
          /\ (LiveStep(t, "decrease_ref") /\ references[obj[t]] > 1)
             => /\ StaysLive(obj[t])
                /\ references'[obj[t]] = references[obj[t]] - 1
          /\ (LiveStep(t, "decrease_ref") /\ references[obj[t]] = 1 /\ Stable')
             => /\ obj[t] \notin DOMAIN references'
                /\ obj[t] \notin DOMAIN objects'
                /\ obj[t] \in Pooled']_vars

\* Some non-empty bucket is one that reuse(ty, ms) is specified to accept.
SomeMatching(ty, ms) ==
    \E i \in 1..Len(memory_pool) :
        /\ memory_pool[i].pool # << >>
        /\ Matches(memory_pool[i].key, ty, ms)

\* C13: a reuse that runs while no bucket matches its arguments, or every
\* matching bucket is empty, returns none, reports NoReuseCandidate and
\* changes neither table, no bucket and not memory_usage.
C13_ReuseWithoutCandidate ==
    [][\A t \in Threads :
          ( /\ pc[t] = "reuse_body"
            /\ pc'[t] # "reuse_body"
            /\ ~SomeMatching(desired_type[t], min_size[t]) )
          => /\ result'[t] = None
             /\ events'[t] = <<"NoReuseCandidate">>
             /\ UNCHANGED <<references, objects, memory_pool, memory_usage>>]_vars

\* C14: drop on an identity that is in neither live table changes neither
\* table, nor the free pool, nor memory_usage, and reports NotAllocated.
C14_DropAbsentReported ==
    [][\A t \in Threads :
          ( /\ pc[t] = "drop_body"
            /\ pc'[t] # "drop_body"
            /\ obj[t] \notin DOMAIN references )
          => /\ UNCHANGED <<references, objects, memory_pool, memory_usage>>
             /\ events'[t] = <<"NotAllocated">>]_vars

\* C15: memory_usage is never negative.
C15_MemoryUsageNotNegative == memory_usage >= 0

\* An object was allocated twice and dropped directly: memory_usage still
\* counts it once although nothing is live.
C15_Witness ==
    /\ objects = << >>
    /\ Pooled # {}
    /\ memory_usage > 0
    /\ \E t \in Threads : pc[t] = "idle" /\ events[t] = <<"Dropped">>

\* C16: a call that has returned has emitted exactly one event.
C16_OneEventPerCall ==
    \A t \in Threads :
        (pc[t] = "idle" /\ op[t] # "none") => Len(events[t]) = 1

\* The buckets of the pool mp as a function of their keys, a key that is
\* not in mp standing for the empty bucket.
Bucket(mp, key) ==
    IF \E i \in 1..Len(mp) : mp[i].key = key
    THEN (CHOOSE e \in {mp[i] : i \in 1..Len(mp)} : e.key = key).pool
    ELSE << >>

PoolKeys(mp) == {mp[i].key : i \in 1..Len(mp)}

\* The bucket the object x belongs in.
KeyOf(x) == <<TypeOf(x), IF SizeOf(x) < 100 THEN small
                         ELSE IF SizeOf(x) < 1000 THEN medium
                         ELSE large>>

\* C17: a direct drop of a live identity reclaims it whatever its count:
\* the step takes size_of(x) off memory_usage, removes x from both live
\* tables, appends x to the bucket (type_tag(x), size_category(size_of(x)))
\* and changes no other count, object or bucket.
C17_DropReclaims ==
    [][\A t \in Threads :
          (LiveStep(t, "drop") /\ caller[t] = "none")
          => /\ memory_usage' = memory_usage - SizeOf(obj[t])
             /\ DOMAIN references' = DOMAIN references \ {obj[t]}
             /\ DOMAIN objects' = DOMAIN objects \ {obj[t]}
             /\ \A i \in DOMAIN references' : references'[i] = references[i]
             /\ \A i \in DOMAIN objects' : objects'[i] = objects[i]
             /\ Bucket(memory_pool', KeyOf(obj[t]))
                  = Append(Bucket(memory_pool, KeyOf(obj[t])), obj[t])
             /\ \A k \in (PoolKeys(memory_pool) \cup PoolKeys(memory_pool'))
                         \ {KeyOf(obj[t])} :
                   Bucket(memory_pool', k) = Bucket(memory_pool, k)]_vars

\* An object with a count of 2 was dropped directly: allocate, increase_ref
\* and drop are the three calls made, and the object is pooled.
C17_Witness ==
    \E t, u \in Threads :
        /\ t # u
        /\ calls = 3
        /\ pc[t] = "idle" /\ events[t] = <<"Dropped">>
        /\ pc[u] = "idle" /\ events[u] = <<"RefIncreased">>
        /\ references = << >>
        /\ Cardinality(Pooled) = 1

\* ------------------------------------------------- _size_category alone
\* Byte sizes on both sides of the boundaries 100 and 1000.
Sizes == {0, 1, 50, 99, 100, 101, 500, 999, 1000, 1001, 5000}

Category(c) == [kind |-> "category", val |-> c]

\* Every thread holds a size, as reuse holds min_size and drop obj_size.
SizeInit ==
    /\ references = << >>
    /\ objects = << >>
    /\ memory_pool = << >>
    /\ lock = NoThread
    /\ memory_usage = 0
    /\ pc = [t \in Threads |-> "idle"]
    /\ op = [t \in Threads |-> "none"]
    /\ obj = [t \in Threads |-> NoObj]
    /\ desired_type = [t \in Threads |-> "None"]
    /\ min_size \in [Threads -> Sizes]
    /\ caller = [t \in Threads |-> "none"]
    /\ result = [t \in Threads |-> Void]
    /\ events = [t \in Threads |-> << >>]
    /\ calls = 0

\* self._size_category(size) for the size the thread holds.
Categorize(t) ==
    /\ result[t] = Void
    /\ result' = [result EXCEPT ![t] = Category(_size_category(min_size[t]))]
    /\ UNCHANGED <<shared, lock, pc, op, obj, desired_type, min_size, caller,
                   events, calls>>

SizeNext == \E t \in Threads : Categorize(t)

SizeSpec == SizeInit /\ [][SizeNext]_vars

\* C18: sizes below 100 are Small, sizes from 100 to 999 Medium, sizes from
\* 1000 on Large, and a size that is not smaller never gets a smaller
\* category under Small < Medium < Large.
C18_SizeCategorySteps ==
    \A t \in Threads :
        result[t] # Void
        => /\ min_size[t] < 100 => result[t] = Category(small)
           /\ (100 <= min_size[t] /\ min_size[t] < 1000)
                 => result[t] = Category(medium)
           /\ min_size[t] >= 1000 => result[t] = Category(large)
           /\ \A u \in Threads :
                 (result[u] # Void /\ min_size[t] <= min_size[u])
                 => Rank(result[t].val) <= Rank(result[u].val)

\* The sizes on both sides of a boundary have been categorized.
C18_Witness ==
    \E t, u \in Threads :
        /\ min_size[t] = 99 /\ result[t] = Category(small)
        /\ min_size[u] = 100 /\ result[u] = Category(medium)

\* C19: every object in a bucket of the free pool has the type and the size
\* category of the bucket's key.
C19_BucketsDescribeObjects ==
    \A i \in 1..Len(memory_pool) :
        \A j \in 1..Len(memory_pool[i].pool) :
            memory_pool[i].key = KeyOf(memory_pool[i].pool[j])

\* A list of medium size has been dropped into its bucket while another
\* object is live.
C19_Witness ==
    /\ objects # << >>
    /\ \E i \in 1..Len(memory_pool) :
          /\ memory_pool[i].key = <<"list", medium>>
          /\ memory_pool[i].pool # << >>

\* Number of objects in the buckets mp[1..n], with repetitions.
RECURSIVE PoolSize(_, _)
PoolSize(mp, n) ==
    IF n = 0 THEN 0 ELSE Len(mp[n].pool) + PoolSize(mp, n - 1)

\* C20: no object is in the live-object table and in a bucket at once, and
\* no object is in the free pool twice.
C20_ExclusivePlacement ==
    /\ Pooled \cap DOMAIN objects = {}
    /\ PoolSize(memory_pool, Len(memory_pool)) = Cardinality(Pooled)
====
